---- MODULE Spec2Model ----
(***************************************************************************)
(* Model of flask_app.py: the tiered electricity cost evaluator, the water  *)
(* tariff, the bill computation and the request handlers that write bills, *)
(* contracts, building records, price tiers and accounts.                  *)
(*                                                                         *)
(* Numbers: the program computes with Python floats; the model uses        *)
(* integers (kWh, m3 and currency units are whole numbers here) and exact  *)
(* fractions [n, d] where the program divides.                            *)
(* Optional columns: None is the empty sequence, a value x is <<x>>.       *)
(***************************************************************************)
EXTENDS Integers, Sequences, FiniteSets, TLC

VARIABLES
    price_tier,                 \* table PriceTier: the set of its rows
    total_electricity_month,    \* table TotalElectricityMonth: rows in insertion order
    bill,                       \* table Bill: rows in insertion order
    users,                      \* table User: its rows by id
    contracts,                  \* table Contract: its rows by id
    call,                       \* the last direct call of the tier evaluator
    response                    \* the last handled request and its outcome

vars == <<price_tier, total_electricity_month, bill, users, contracts, call, response>>

-----------------------------------------------------------------------------
(* Bounds of the model *)

MaxTiers == 2       \* rows of PriceTier drawn by the evaluator's specification
MaxKwh == 2         \* largest from_kwh / to_kwh drawn
MaxPrice == 1       \* largest unit price drawn
MaxUsage == 3       \* largest total_kwh passed to the evaluator

-----------------------------------------------------------------------------
(* Python values *)

None == << >>
Some(x) == <<x>>

\* bool(x) of an optional float column: None and 0.0 are falsy
Truthy(v) == v /= None /\ v[1] /= 0

Min(a, b) == IF a <= b THEN a ELSE b
Max(a, b) == IF a >= b THEN a ELSE b

-----------------------------------------------------------------------------
(* The rows of User, Room, Tenant and Contract the handlers start with *)

\* The admin the start-up code seeds, the owner of the room and another user
User ==
    [u \in {1, 2, 3} |->
        [id |-> u, username |-> IF u = 1 THEN "admin" ELSE IF u = 2 THEN "u2" ELSE "u3",
         role |-> IF u = 1 THEN "admin" ELSE "user", tenant_id |-> None]]

Room == [r \in {1} |-> [id |-> r, rent_price |-> 2000000, internet_fee |-> 100000,
                        user_id |-> 2]]

Tenant == [t \in {1} |-> [id |-> t, room_id |-> 1]]

\* Dates are day numbers; end_date = start_date + timedelta(days=30 * duration_months)
Contract ==
    [c \in {1} |-> [id |-> c, tenant_id |-> 1, start_date |-> 0, duration_months |-> 12,
                    end_date |-> 360]]

-----------------------------------------------------------------------------
(* PriceTier and the tiered cost evaluator *)

PriceTierRow(id, order, from, to, p) ==
    [id |-> id, tier_order |-> order, from_kwh |-> from, to_kwh |-> to, price |-> p]

\* PriceTier.query.order_by(PriceTier.tier_order).all(): the rows sorted by
\* tier_order; rows of equal tier_order come in an order the database picks.
RECURSIVE order_by_tier_order(_)
order_by_tier_order(rows) ==
    IF rows = {} THEN { << >> }
    ELSE UNION { { <<r>> \o s : s \in order_by_tier_order(rows \ {r}) } :
                 r \in { x \in rows : \A y \in rows : x.tier_order <= y.tier_order } }

\* Variants of the loop and of the evaluator with one statement changed; the
\* theorems below are checked to fail when a variant takes the original's place.
RECURSIVE tier_loop_no_decrement(_, _, _)
tier_loop_no_decrement(tiers, cost, remaining) ==        \* "remaining -= used" dropped
    IF tiers = << >> THEN cost
    ELSE LET tier == Head(tiers)
             infinite == ~Truthy(tier.to_kwh)
             tier_size == IF infinite THEN 0 ELSE tier.to_kwh[1] - tier.from_kwh
             used == IF infinite THEN remaining ELSE Min(remaining, tier_size)
             cost1 == IF used > 0 THEN cost + used * tier.price ELSE cost
         IN  IF remaining <= 0 THEN cost1
             ELSE tier_loop_no_decrement(Tail(tiers), cost1, remaining)

RECURSIVE tier_loop_overwrite(_, _, _)
tier_loop_overwrite(tiers, cost, remaining) ==           \* "cost = used * tier.price"
    IF tiers = << >> THEN cost
    ELSE LET tier == Head(tiers)
             infinite == ~Truthy(tier.to_kwh)
             tier_size == IF infinite THEN 0 ELSE tier.to_kwh[1] - tier.from_kwh
             used == IF infinite THEN remaining ELSE Min(remaining, tier_size)
             cost1 == IF used > 0 THEN used * tier.price ELSE cost
             remaining1 == IF used > 0 THEN remaining - used ELSE remaining
         IN  IF remaining1 <= 0 THEN cost1
             ELSE tier_loop_overwrite(Tail(tiers), cost1, remaining1)

RECURSIVE tier_loop_no_guard(_, _, _)
tier_loop_no_guard(tiers, cost, remaining) ==            \* "if used > 0:" dropped
    IF tiers = << >> THEN cost
    ELSE LET tier == Head(tiers)
             infinite == ~Truthy(tier.to_kwh)
             tier_size == IF infinite THEN 0 ELSE tier.to_kwh[1] - tier.from_kwh
             used == IF infinite THEN remaining ELSE Min(remaining, tier_size)
             cost1 == cost + used * tier.price
             remaining1 == remaining - used
         IN  IF remaining1 <= 0 THEN cost1
             ELSE tier_loop_no_guard(Tail(tiers), cost1, remaining1)

\* The for loop of the evaluator over the rows not yet visited.
RECURSIVE tier_loop(_, _, _)
tier_loop(tiers, cost, remaining) ==
    IF tiers = << >> THEN cost
    ELSE LET tier == Head(tiers)
             \* (tier.to_kwh or float('inf')) - tier.from_kwh
             infinite == ~Truthy(tier.to_kwh)
             tier_size == IF infinite THEN 0 ELSE tier.to_kwh[1] - tier.from_kwh
             used == IF infinite THEN remaining ELSE Min(remaining, tier_size)
             cost1 == IF used > 0 THEN cost + used * tier.price ELSE cost
             remaining1 == IF used > 0 THEN remaining - used ELSE remaining
         IN  IF remaining1 <= 0 THEN cost1
             ELSE tier_loop(Tail(tiers), cost1, remaining1)

calculate_total_electricity_cost_before_vat_strict(total_kwh, tiers) ==
    IF total_kwh < 0                                      \* "<" for "<="
    THEN [cost |-> 0, queried |-> FALSE]
    ELSE [cost |-> tier_loop(tiers, 0, total_kwh), queried |-> TRUE]

\* tiers is what the query of line 118 returns when it is run; queried tells
\* whether the call ran it.
calculate_total_electricity_cost_before_vat(total_kwh, tiers) ==
    IF total_kwh <= 0
    THEN [cost |-> 0, queried |-> FALSE]
    ELSE [cost |-> tier_loop(tiers, 0, total_kwh), queried |-> TRUE]

-----------------------------------------------------------------------------
(* Specification of the evaluator alone: any small tier table, any usage *)

NoCall == [called |-> FALSE, function |-> "none", total_kwh |-> 0, tiers |-> << >>,
           cost |-> 0, queried |-> FALSE]

NoForm == [month |-> 0, electricity_old |-> 0, electricity_new |-> 0,
           water_old |-> 0, water_new |-> 0]

NoBillData == [exc |-> "no call"]

NoResponse ==
    [handler |-> "none", target |-> 0, form |-> NoForm, status |-> 0,
     exc |-> "none", computed |-> FALSE, bill_data |-> NoBillData]

TierColumns ==
    { [from_kwh |-> f, to_kwh |-> t, price |-> p] :
        f \in 0..MaxKwh,
        t \in {None} \cup { Some(x) : x \in 0..MaxKwh },
        p \in 0..MaxPrice }

\* Any table of at most MaxTiers rows whose tier_order values are distinct.
InitTier ==
    /\ \E ids \in SUBSET (1..MaxTiers) :
         \E cols \in [ids -> TierColumns] :
             price_tier = { PriceTierRow(i, i, cols[i].from_kwh, cols[i].to_kwh,
                                         cols[i].price) : i \in ids }
    /\ total_electricity_month = << >>
    /\ bill = << >>
    /\ users = User
    /\ contracts = Contract
    /\ call = NoCall
    /\ response = NoResponse

Evaluate ==
    \E total_kwh \in 0..MaxUsage, tiers \in order_by_tier_order(price_tier) :
        LET r == calculate_total_electricity_cost_before_vat(total_kwh, tiers)
        IN  /\ call' = [called |-> TRUE,
                        function |-> "calculate_total_electricity_cost_before_vat",
                        total_kwh |-> total_kwh, tiers |-> tiers,
                        cost |-> r.cost, queried |-> r.queried]
            /\ UNCHANGED <<price_tier, total_electricity_month, bill, users, contracts,
                         response>>

NextTier == Evaluate

SpecTier == InitTier /\ [][NextTier]_vars

-----------------------------------------------------------------------------
(* Exact fractions, for the values the program gets by dividing floats *)

RECURSIVE GCD(_, _)
GCD(a, b) == IF b = 0 THEN a ELSE GCD(b, a % b)

\* n / d in lowest terms, d > 0, n >= 0
Fraction(n, d) == LET g == GCD(n, d) IN [n |-> n \div g, d |-> d \div g]
Whole(x) == [n |-> x, d |-> 1]
FracAdd(x, y) == Fraction(x.n * y.d + y.n * x.d, x.d * y.d)
FracMul(x, y) == Fraction(x.n * y.n, x.d * y.d)

\* VAT_RATE = 0.08
VAT_RATE == Fraction(8, 100)

-----------------------------------------------------------------------------
(* The bill computation *)

\* An exception leaving a function, and a value returned by it
Raise(e) == [exc |-> e]
Return(kind, v) == [exc |-> "none", kind |-> kind, value |-> v]

\* Arguments whose Python type decides what an operation on them does
PyFloat(x) == [type |-> "float", v |-> x]
PyDate(m) == [type |-> "date", v |-> m]

\* def calculate_water_cost(water_usage), line 91: bound first, rebound at 176
calculate_water_cost_91(water_usage) ==
    IF water_usage <= 0 THEN 0
    ELSE IF water_usage <= 5 THEN water_usage * 16000
    ELSE 5 * 16000 + (water_usage - 5) * 27000

\* Variant of the def of line 176 that prices every unit at the first rate
calculate_water_cost_flat(usage) == usage * 16000

\* def calculate_water_cost(usage), line 176
calculate_water_cost_176(usage) ==
    IF usage <= 5 THEN usage * 16000
    ELSE (5 * 16000) + ((usage - 5) * 27000)

\* The module-level name calculate_water_cost when a request is handled: the
\* def statements run in file order at import, the last one stays bound.
calculate_water_cost(usage) == calculate_water_cost_176(usage)

\* TotalElectricityMonth.query.filter_by(month=bill_month).first(): the first
\* matching row in insertion order, None without one
month_entry_first(rows, bill_month) ==
    LET hits == { i \in 1..Len(rows) : rows[i].month = bill_month }
    IN  IF hits = {} THEN None
        ELSE Some(rows[CHOOSE i \in hits : \A j \in hits : i <= j])

\* Names the body of the def at line 134 can read: its parameters and locals,
\* and the names bound at module level.
calculate_bill_134_locals ==
    { "contract", "electricity_old", "electricity_new", "water_old", "water_new",
      "bill_month", "room", "electricity_usage", "water_usage", "water_cost",
      "month_entry", "total_month_kwh", "total_month_cost_before_vat",
      "average_price", "room_electricity_before_vat", "room_electricity_with_vat",
      "total" }

module_names ==
    { "Flask", "render_template", "request", "redirect", "url_for", "flash",
      "make_response", "session", "SQLAlchemy", "LoginManager", "UserMixin",
      "login_user", "login_required", "logout_user", "current_user",
      "generate_password_hash", "check_password_hash", "datetime", "timedelta", "os",
      "app", "db", "login_manager", "VAT_RATE", "User", "Room", "Tenant", "Contract",
      "TotalElectricityMonth", "Bill", "PriceTier", "calculate_water_cost",
      "get_total_electricity_usage_in_month",
      "calculate_total_electricity_cost_before_vat", "calculate_bill", "load_user",
      "login", "logout", "register", "manage_users", "edit_user", "delete_user",
      "dashboard", "create_room", "room_detail", "create_tenant", "create_contract",
      "tenant_detail", "extend_contract", "contract_detail", "create_bill", "pay_bill",
      "bill_print", "edit_contract", "delete_contract", "edit_bill", "delete_bill",
      "manage_total_electricity", "manage_electricity_prices", "tenant_login",
      "tenant_dashboard", "tenant_logout" }

\* def calculate_bill(contract, ..., bill_month), line 134: bound first, rebound
\* at 182. month_entry and tiers are what its two queries return. This is the
\* function down to "total = ...": the values of its locals at the return.
calculate_bill_134_body(contract, electricity_old, electricity_new, water_old, water_new, month_entry, tiers) ==
    LET room == Room[Tenant[contract.tenant_id].room_id]
        electricity_usage == Max(electricity_new - electricity_old, 0)
        water_usage == Max(water_new - water_old, 0)
        water_cost == calculate_water_cost(water_usage)
        total_month_kwh == IF month_entry /= None THEN month_entry[1].total_kwh ELSE 0
        total_month_cost_before_vat ==
            calculate_total_electricity_cost_before_vat(total_month_kwh, tiers).cost
        average_price == IF total_month_kwh > 0
                         THEN Fraction(total_month_cost_before_vat, total_month_kwh)
                         ELSE Whole(0)
        room_electricity_before_vat == FracMul(Whole(electricity_usage), average_price)
        room_electricity_with_vat ==
            FracMul(room_electricity_before_vat, FracAdd(Whole(1), VAT_RATE))
        total == FracAdd(Whole(room.rent_price + room.internet_fee + water_cost),
                         room_electricity_with_vat)
    IN  [total |-> total,
         electricity_usage |-> electricity_usage,
         water_usage |-> water_usage,
         room_electricity_before_vat |-> room_electricity_before_vat,
         electricity_vat |-> FracMul(room_electricity_before_vat, VAT_RATE),
         room_electricity_with_vat |-> room_electricity_with_vat,
         water_cost |-> water_cost,
         average_price |-> average_price]

\* Its return statement: the dict reads average_price_before_vat, a name bound
\* neither in the function nor in the module.
calculate_bill_134(contract, electricity_old, electricity_new, water_old, water_new, month_entry, tiers) ==
    LET l == calculate_bill_134_body(contract, electricity_old, electricity_new,
                                     water_old, water_new, month_entry, tiers)
    IN  IF "average_price_before_vat" \notin (calculate_bill_134_locals \cup module_names)
        THEN Raise("NameError")
        ELSE Return("dict",
                 [total |-> l.total,
                  electricity_usage |-> l.electricity_usage,
                  water_usage |-> l.water_usage,
                  room_electricity_before_vat |-> l.room_electricity_before_vat,
                  electricity_vat |-> l.electricity_vat,
                  room_electricity_with_vat |-> l.room_electricity_with_vat,
                  water_cost |-> l.water_cost,
                  average_price_before_vat |-> l.average_price])

\* def calculate_bill(contract, ..., electricity_price=4000.0), line 182
calculate_bill_182(contract, electricity_old, electricity_new, water_old, water_new, electricity_price) ==
    LET room == Room[Tenant[contract.tenant_id].room_id]
        electricity_usage == IF electricity_new >= electricity_old
                             THEN electricity_new - electricity_old ELSE 0
        water_usage == IF water_new >= water_old THEN water_new - water_old ELSE 0
    IN  \* electricity_usage * electricity_price: a number times a date raises
        IF electricity_price.type /= "float" THEN Raise("TypeError")
        ELSE LET electricity_cost == electricity_usage * electricity_price.v
                 water_cost == calculate_water_cost(water_usage)
                 total == room.rent_price + room.internet_fee + electricity_cost
                          + water_cost
             IN  Return("tuple", [total |-> Whole(total),
                                  electricity_usage |-> electricity_usage,
                                  water_usage |-> water_usage,
                                  electricity_cost |-> electricity_cost,
                                  water_cost |-> water_cost])

\* The module-level name calculate_bill when a request is handled: the def at
\* line 182. The handlers pass the billing month as its sixth argument.
calculate_bill(contract, electricity_old, electricity_new, water_old, water_new, sixth) ==
    calculate_bill_182(contract, electricity_old, electricity_new, water_old,
                       water_new, sixth)

\* bill_data['electricity_usage'] and the like: a tuple takes no string index
Subscriptable(bill_data) == bill_data.kind = "dict"

-----------------------------------------------------------------------------
(* Specification of the water tariff alone: any usage the callers can pass *)

\* The tier table the start-up code seeds
SeededTiers ==
    { PriceTierRow(1, 1, 0, Some(50), 1984),
      PriceTierRow(2, 2, 50, Some(100), 2050),
      PriceTierRow(3, 3, 100, Some(200), 2380),
      PriceTierRow(4, 4, 200, Some(300), 2998),
      PriceTierRow(5, 5, 300, Some(400), 3350),
      PriceTierRow(6, 6, 400, None, 3460) }

MaxWaterUsage == 100    \* largest water usage passed to calculate_water_cost

InitWater ==
    /\ price_tier = SeededTiers
    /\ total_electricity_month = << >>
    /\ bill = << >>
    /\ users = User
    /\ contracts = Contract
    /\ call = NoCall
    /\ response = NoResponse

\* calculate_water_cost(water_usage) as calculate_bill and bill_print call it:
\* the usage is max(water_new - water_old, 0) or a stored usage, never negative
WaterCostCall ==
    \E usage \in 0..MaxWaterUsage :
        /\ call' = [called |-> TRUE, function |-> "calculate_water_cost",
                    total_kwh |-> usage, tiers |-> << >>,
                    cost |-> calculate_water_cost(usage), queried |-> FALSE]
        /\ UNCHANGED <<price_tier, total_electricity_month, bill, users, contracts,
                       response>>

NextWater == WaterCostCall

SpecWater == InitWater /\ [][NextWater]_vars

-----------------------------------------------------------------------------
(* The application: requests handled one at a time *)

MaxMonth == 2        \* billing months 1..MaxMonth
MaxMonthRows == 2    \* rows of TotalElectricityMonth
MaxBills == 2        \* rows of Bill
MaxTierChanges == 1  \* rows of PriceTier that differ from the seeded table
MaxPricedMonths == 1 \* rows of TotalElectricityMonth while the tier table changes
MaxUsers == 4        \* rows of User

\* Values the forms submit
Months == 1..MaxMonth
ElectricityReadings == {0, 10}
WaterReadings == {0, 6}
BuildingReadings == {0, 120}
ContractIds == {1, 2}
BillIds == 1..MaxBills

Init ==
    /\ price_tier = SeededTiers
    /\ total_electricity_month = << >>
    /\ bill = << >>
    /\ users = User
    /\ contracts = Contract
    /\ call = NoCall
    /\ response = NoResponse

\* What a handled request leaves in response: the request and how it ended.
\* form is the submitted form once the handler has read it; computed tells
\* whether the handler got as far as calling calculate_bill, bill_data is what
\* that call gave back.
Response(handler, target, form, status, exc, computed, bill_data) ==
    [handler |-> handler, target |-> target, form |-> form,
     status |-> status, exc |-> exc, computed |-> computed, bill_data |-> bill_data]

Rejected(handler, target, status) ==
    Response(handler, target, NoForm, status, "none", FALSE, NoBillData)

BillForms ==
    [month : Months, electricity_old : ElectricityReadings,
     electricity_new : ElectricityReadings, water_old : WaterReadings,
     water_new : WaterReadings]

\* current_user.role != 'admin' and room.user_id != current_user.id
Denied(current_user, room) ==
    users[current_user].role /= "admin" /\ room.user_id /= current_user

BillIndex(bill_id) == { i \in 1..Len(bill) : bill[i].id = bill_id }

NextBillId == IF bill = << >> THEN 1 ELSE bill[Len(bill)].id + 1

\* What ends the POST branch of create_bill and edit_bill before the commit:
\* the exception calculate_bill raised, or the TypeError of reading
\* bill_data['electricity_usage'] from a tuple; "none" when the branch commits.
bill_post_exception(bill_data) ==
    IF bill_data.exc /= "none" THEN bill_data.exc
    ELSE IF ~Subscriptable(bill_data) THEN "TypeError"
    ELSE "none"

\* Variant of create_bill that deletes the building records of the billing
\* month and commits before it runs the bill computation
create_bill_clearing_month(current_user, contract_id) ==
    /\ contract_id \in DOMAIN contracts
    /\ ~Denied(current_user, Room[Tenant[contracts[contract_id].tenant_id].room_id])
    /\ \E form \in BillForms :
          LET bill_data == calculate_bill(contracts[contract_id], form.electricity_old,
                               form.electricity_new, form.water_old, form.water_new,
                               PyDate(form.month))
          IN  /\ total_electricity_month' =
                     SelectSeq(total_electricity_month, LAMBDA r : r.month /= form.month)
              /\ response' = Response("create_bill", contract_id, form, 500,
                                      bill_post_exception(bill_data), TRUE, bill_data)
    /\ UNCHANGED <<price_tier, bill, users, contracts, call>>

\* POST /create_bill/<contract_id>
create_bill(current_user, contract_id) ==
    IF contract_id \notin DOMAIN contracts
    THEN /\ response' = Rejected("create_bill", contract_id, 404)
         /\ UNCHANGED <<price_tier, total_electricity_month, bill, users, contracts, call>>
    ELSE
    LET contract == contracts[contract_id]
        room == Room[Tenant[contract.tenant_id].room_id]
    IN  IF Denied(current_user, room)
        THEN /\ response' = Rejected("create_bill", contract_id, 302)
             /\ UNCHANGED <<price_tier, total_electricity_month, bill, users, contracts, call>>
        ELSE \E form \in BillForms :
               LET bill_data == calculate_bill(contract, form.electricity_old,
                                    form.electricity_new, form.water_old,
                                    form.water_new, PyDate(form.month))
                   exc == bill_post_exception(bill_data)
               IN  IF exc /= "none"
                   THEN \* the exception leaves the handler: nothing is committed
                        /\ response' = Response("create_bill", contract_id, form, 500,
                                                exc, TRUE, bill_data)
                        /\ UNCHANGED <<price_tier, total_electricity_month, bill, users, contracts, call>>
                   ELSE /\ Len(bill) < MaxBills
                        /\ bill' = Append(bill,
                               [id |-> NextBillId, contract_id |-> contract_id,
                                month |-> form.month,
                                electricity_old |-> form.electricity_old,
                                electricity_new |-> form.electricity_new,
                                water_old |-> form.water_old,
                                water_new |-> form.water_new,
                                electricity_usage |-> bill_data.value.electricity_usage,
                                water_usage |-> bill_data.value.water_usage,
                                total |-> bill_data.value.total, paid |-> FALSE])
                        /\ response' = Response("create_bill", contract_id, form, 302,
                                                "none", TRUE, bill_data)
                        /\ UNCHANGED <<price_tier, total_electricity_month, users, contracts, call>>

\* POST /edit_bill/<bill_id>
edit_bill(current_user, bill_id) ==
    IF BillIndex(bill_id) = {}
    THEN /\ response' = Rejected("edit_bill", bill_id, 404)
         /\ UNCHANGED <<price_tier, total_electricity_month, bill, users, contracts, call>>
    ELSE
    LET i == CHOOSE j \in BillIndex(bill_id) : TRUE
        contract == contracts[bill[i].contract_id]
        room == Room[Tenant[contract.tenant_id].room_id]
    IN  IF bill[i].contract_id \notin DOMAIN contracts
        THEN \* Contract.query.get gives None, contract.tenant_id raises
             /\ response' = Response("edit_bill", bill_id, NoForm, 500,
                                     "AttributeError", FALSE, NoBillData)
             /\ UNCHANGED <<price_tier, total_electricity_month, bill, users, contracts, call>>
        ELSE
        IF Denied(current_user, room)
        THEN /\ response' = Rejected("edit_bill", bill_id, 302)
             /\ UNCHANGED <<price_tier, total_electricity_month, bill, users, contracts, call>>
        ELSE \E form \in BillForms :
               LET bill_data == calculate_bill(contract, form.electricity_old,
                                    form.electricity_new, form.water_old,
                                    form.water_new, PyDate(form.month))
                   exc == bill_post_exception(bill_data)
               IN  IF exc /= "none"
                   THEN /\ response' = Response("edit_bill", bill_id, form, 500, exc,
                                                TRUE, bill_data)
                        /\ UNCHANGED <<price_tier, total_electricity_month, bill, users, contracts, call>>
                   ELSE /\ bill' = [bill EXCEPT ![i] =
                               [@ EXCEPT
                                  !.month = form.month,
                                  !.electricity_old = form.electricity_old,
                                  !.electricity_new = form.electricity_new,
                                  !.water_old = form.water_old,
                                  !.water_new = form.water_new,
                                  !.electricity_usage = bill_data.value.electricity_usage,
                                  !.water_usage = bill_data.value.water_usage,
                                  !.total = bill_data.value.total]]
                        /\ response' = Response("edit_bill", bill_id, form, 302, "none",
                                                TRUE, bill_data)
                        /\ UNCHANGED <<price_tier, total_electricity_month, users, contracts, call>>

\* POST /manage_total_electricity
manage_total_electricity(current_user) ==
    IF users[current_user].role /= "admin"
    THEN /\ response' = Rejected("manage_total_electricity", 0, 302)
         /\ UNCHANGED <<price_tier, total_electricity_month, bill, users, contracts, call>>
    ELSE \E month \in Months, electricity_old \in BuildingReadings,
            electricity_new \in BuildingReadings,
            tiers \in order_by_tier_order(price_tier) :
           LET total_kwh == Max(electricity_new - electricity_old, 0)
               total_cost_before_vat ==
                   calculate_total_electricity_cost_before_vat(total_kwh, tiers).cost
               average_price == IF total_kwh > 0
                                THEN Fraction(total_cost_before_vat, total_kwh)
                                ELSE Whole(0)
           IN  /\ Len(total_electricity_month) < MaxMonthRows
               /\ total_electricity_month' = Append(total_electricity_month,
                      [id |-> Len(total_electricity_month) + 1, month |-> month,
                       electricity_old |-> electricity_old,
                       electricity_new |-> electricity_new,
                       total_kwh |-> total_kwh, average_price |-> average_price])
               /\ response' = Response("manage_total_electricity", 0,
                      [NoForm EXCEPT !.month = month,
                                     !.electricity_old = electricity_old,
                                     !.electricity_new = electricity_new],
                      302, "none", FALSE, NoBillData)
               /\ UNCHANGED <<price_tier, bill, users, contracts, call>>

\* Values the tier form submits. to_kwh is None for the empty field:
\* float(request.form['to_kwh']) if request.form['to_kwh'] else None
TierForms ==
    [tier_order : {1, 7}, from_kwh : {0}, to_kwh : {None, Some(50)},
     price : {1984, 5000}]

TierIds == 1..7

\* the id the database gives a new PriceTier row
NextTierId ==
    IF price_tier = {} THEN 1
    ELSE (CHOOSE r \in price_tier : \A x \in price_tier : x.id <= r.id).id + 1

\* ids of the rows that are not as seeded: edited, deleted or added
ChangedTierIds(rows) ==
    { r.id : r \in (rows \ SeededTiers) \cup (SeededTiers \ rows) }

\* POST /manage_electricity_prices
manage_electricity_prices(current_user) ==
    IF users[current_user].role /= "admin"
    THEN /\ response' = Rejected("manage_electricity_prices", 0, 302)
         /\ UNCHANGED <<price_tier, total_electricity_month, bill, users, contracts, call>>
    ELSE \E action \in {"edit", "delete", "add", "none"}, tier_id \in TierIds :
           LET found == { r \in price_tier : r.id = tier_id }
               tier == CHOOSE r \in found : TRUE
           IN  IF action \in {"edit", "delete"} /\ found = {}
               THEN /\ response' = Rejected("manage_electricity_prices", tier_id, 404)
                    /\ UNCHANGED <<price_tier, total_electricity_month, bill, users,
                                   contracts, call>>
               ELSE /\ \/ /\ action = "edit"
                          /\ \E form \in TierForms :
                                price_tier' = (price_tier \ {tier}) \cup
                                    { PriceTierRow(tier.id, form.tier_order, form.from_kwh,
                                                   form.to_kwh, form.price) }
                       \/ /\ action = "delete"
                          /\ price_tier' = price_tier \ {tier}
                       \/ /\ action = "add"
                          /\ \E form \in TierForms :
                                price_tier' = price_tier \cup
                                    { PriceTierRow(NextTierId, form.tier_order,
                                                   form.from_kwh, form.to_kwh, form.price) }
                       \/ /\ action = "none"
                          /\ price_tier' = price_tier
                    /\ Cardinality(ChangedTierIds(price_tier')) <= MaxTierChanges
                    /\ response' = Response("manage_electricity_prices", 0, NoForm,
                                            302, action, FALSE, NoBillData)
                    /\ UNCHANGED <<total_electricity_month, bill, users, contracts, call>>

\* POST /pay_bill/<bill_id>
pay_bill(current_user, bill_id) ==
    IF BillIndex(bill_id) = {}
    THEN /\ response' = Rejected("pay_bill", bill_id, 404)
         /\ UNCHANGED <<price_tier, total_electricity_month, bill, users, contracts, call>>
    ELSE
    LET i == CHOOSE j \in BillIndex(bill_id) : TRUE
        contract == contracts[bill[i].contract_id]
        room == Room[Tenant[contract.tenant_id].room_id]
    IN  IF bill[i].contract_id \notin DOMAIN contracts
        THEN /\ response' = Response("pay_bill", bill_id, NoForm, 500,
                                     "AttributeError", FALSE, NoBillData)
             /\ UNCHANGED <<price_tier, total_electricity_month, bill, users, contracts, call>>
        ELSE
        IF Denied(current_user, room)
        THEN /\ response' = Rejected("pay_bill", bill_id, 302)
             /\ UNCHANGED <<price_tier, total_electricity_month, bill, users, contracts, call>>
        ELSE /\ bill' = [bill EXCEPT ![i].paid = TRUE]
             /\ response' = Rejected("pay_bill", bill_id, 302)
             /\ UNCHANGED <<price_tier, total_electricity_month, users, contracts, call>>

\* POST /delete_bill/<bill_id>
delete_bill(current_user, bill_id) ==
    IF BillIndex(bill_id) = {}
    THEN /\ response' = Rejected("delete_bill", bill_id, 404)
         /\ UNCHANGED <<price_tier, total_electricity_month, bill, users, contracts, call>>
    ELSE
    LET i == CHOOSE j \in BillIndex(bill_id) : TRUE
        contract == contracts[bill[i].contract_id]
        room == Room[Tenant[contract.tenant_id].room_id]
    IN  IF bill[i].contract_id \notin DOMAIN contracts
        THEN /\ response' = Response("delete_bill", bill_id, NoForm, 500,
                                     "AttributeError", FALSE, NoBillData)
             /\ UNCHANGED <<price_tier, total_electricity_month, bill, users, contracts, call>>
        ELSE
        IF Denied(current_user, room)
        THEN /\ response' = Rejected("delete_bill", bill_id, 302)
             /\ UNCHANGED <<price_tier, total_electricity_month, bill, users, contracts, call>>
        ELSE /\ bill' = SelectSeq(bill, LAMBDA b : b.id /= bill_id)
             /\ response' = Rejected("delete_bill", bill_id, 302)
             /\ UNCHANGED <<price_tier, total_electricity_month, users, contracts, call>>

\* Bill.query.filter_by(contract_id=contract_id).first() is not None
HasBill(contract_id) == \E i \in 1..Len(bill) : bill[i].contract_id = contract_id

\* Values the contract form submits: start dates as day numbers, whole months
StartDates == {0, 30}
Durations == {6, 12}

\* What an edit_contract or delete_contract request leaves in response: status
\* 302 for every redirect, exc tells which one ("denied", "has bills", "none")
ContractResponse(handler, contract_id, status, why) ==
    Response(handler, contract_id, NoForm, status, why, FALSE, NoBillData)

\* POST /edit_contract/<contract_id>
edit_contract(current_user, contract_id) ==
    IF contract_id \notin DOMAIN contracts
    THEN /\ response' = ContractResponse("edit_contract", contract_id, 404, "none")
         /\ UNCHANGED <<price_tier, total_electricity_month, bill, users, contracts, call>>
    ELSE
    LET contract == contracts[contract_id]
        room == Room[Tenant[contract.tenant_id].room_id]
    IN  IF Denied(current_user, room)
        THEN /\ response' = ContractResponse("edit_contract", contract_id, 302, "denied")
             /\ UNCHANGED <<price_tier, total_electricity_month, bill, users, contracts, call>>
        ELSE
        IF HasBill(contract_id)
        THEN /\ response' = ContractResponse("edit_contract", contract_id, 302, "has bills")
             /\ UNCHANGED <<price_tier, total_electricity_month, bill, users, contracts, call>>
        ELSE \E start_date \in StartDates, duration_months \in Durations :
               /\ contracts' = [contracts EXCEPT ![contract_id] =
                      [@ EXCEPT !.start_date = start_date,
                                !.duration_months = duration_months,
                                !.end_date = start_date + 30 * duration_months]]
               /\ response' = ContractResponse("edit_contract", contract_id, 302, "none")
               /\ UNCHANGED <<price_tier, total_electricity_month, bill, users, call>>

\* POST /delete_contract/<contract_id>
delete_contract(current_user, contract_id) ==
    IF contract_id \notin DOMAIN contracts
    THEN /\ response' = ContractResponse("delete_contract", contract_id, 404, "none")
         /\ UNCHANGED <<price_tier, total_electricity_month, bill, users, contracts, call>>
    ELSE
    LET contract == contracts[contract_id]
        room == Room[Tenant[contract.tenant_id].room_id]
    IN  IF Denied(current_user, room)
        THEN /\ response' = ContractResponse("delete_contract", contract_id, 302, "denied")
             /\ UNCHANGED <<price_tier, total_electricity_month, bill, users, contracts, call>>
        ELSE
        IF HasBill(contract_id)
        THEN /\ response' = ContractResponse("delete_contract", contract_id, 302, "has bills")
             /\ UNCHANGED <<price_tier, total_electricity_month, bill, users, contracts, call>>
        ELSE /\ contracts' = [c \in DOMAIN contracts \ {contract_id} |-> contracts[c]]
             /\ response' = ContractResponse("delete_contract", contract_id, 302, "none")
             /\ UNCHANGED <<price_tier, total_electricity_month, bill, users, call>>

CreateBill ==
    \E current_user \in DOMAIN users, contract_id \in ContractIds :
        create_bill(current_user, contract_id)

EditBill ==
    \E current_user \in DOMAIN users, bill_id \in BillIds :
        edit_bill(current_user, bill_id)

ManageTotalElectricity ==
    \E current_user \in DOMAIN users : manage_total_electricity(current_user)

Next == CreateBill \/ EditBill \/ ManageTotalElectricity

Spec == Init /\ [][Next]_vars

-----------------------------------------------------------------------------
(* Specification of the bills and contracts: the requests that write them *)

PayBill ==
    \E current_user \in DOMAIN users, bill_id \in BillIds :
        pay_bill(current_user, bill_id)

DeleteBill ==
    \E current_user \in DOMAIN users, bill_id \in BillIds :
        delete_bill(current_user, bill_id)

EditContract ==
    \E current_user \in DOMAIN users, contract_id \in ContractIds :
        edit_contract(current_user, contract_id)

DeleteContract ==
    \E current_user \in DOMAIN users, contract_id \in ContractIds :
        delete_contract(current_user, contract_id)

NextContracts ==
    CreateBill \/ EditBill \/ PayBill \/ DeleteBill \/ EditContract \/ DeleteContract

SpecContracts == Init /\ [][NextContracts]_vars

-----------------------------------------------------------------------------
(* Specification of the accounts: the requests that write User *)

\* Values the account forms submit. "" is the empty field; a role of "" is a
\* form without the field, "guest" a role outside the three known ones.
RegisterForms ==
    [username : {"admin", "new"}, password : {"", "secret"},
     role : {"admin", "user", "tenant"}, tenant_id : {None, Some(1)}]

EditUserForms == [username : {"", "new"}, role : {"", "admin", "user", "guest"}]

UserIds == 1..MaxUsers

\* the id the database gives a new User row
NextUserId ==
    IF DOMAIN users = {} THEN 1
    ELSE (CHOOSE u \in DOMAIN users : \A v \in DOMAIN users : v <= u) + 1

\* User.query.filter_by(username=username).first() is not None
UsernameTaken(username) == \E u \in DOMAIN users : users[u].username = username

\* User.query.filter_by(role='admin').count()
AdminCount == Cardinality({ u \in DOMAIN users : users[u].role = "admin" })

\* What a register, edit_user or delete_user request leaves in response: the
\* caller, the account named, the status and in exc which return ended it
UserResponse(handler, current_user, user_id, status, why) ==
    [handler |-> handler, target |-> user_id, form |-> NoForm, status |-> status,
     exc |-> why, computed |-> FALSE, bill_data |-> NoBillData,
     current_user |-> current_user]

\* POST /register
register(current_user) ==
    IF users[current_user].role /= "admin"
    THEN /\ response' = UserResponse("register", current_user, 0, 302, "not admin")
         /\ UNCHANGED <<price_tier, total_electricity_month, bill, users, contracts, call>>
    ELSE \E form \in RegisterForms :
           IF UsernameTaken(form.username)
           THEN /\ response' = UserResponse("register", current_user, 0, 200, "username taken")
                /\ UNCHANGED <<price_tier, total_electricity_month, bill, users,
                               contracts, call>>
           ELSE
           IF form.password = ""
           THEN /\ response' = UserResponse("register", current_user, 0, 200, "no password")
                /\ UNCHANGED <<price_tier, total_electricity_month, bill, users,
                               contracts, call>>
           ELSE
           IF form.role = "tenant" /\ form.tenant_id = None
           THEN /\ response' = UserResponse("register", current_user, 0, 200, "no tenant")
                /\ UNCHANGED <<price_tier, total_electricity_month, bill, users,
                               contracts, call>>
           ELSE /\ Cardinality(DOMAIN users) < MaxUsers
                /\ NextUserId \in UserIds
                /\ users' = [u \in DOMAIN users \cup {NextUserId} |->
                                IF u \in DOMAIN users THEN users[u]
                                ELSE [id |-> u, username |-> form.username,
                                      role |-> form.role,
                                      tenant_id |-> IF form.role = "tenant"
                                                    THEN form.tenant_id ELSE None]]
                /\ response' = UserResponse("register", current_user, NextUserId, 302, "none")
                /\ UNCHANGED <<price_tier, total_electricity_month, bill, contracts, call>>

\* Variant of the role update of edit_user without the check of line 316
edit_user_role_unguarded(user, current_user, role) ==
    IF role /= "" /\ role \in {"admin", "user", "tenant"} THEN role ELSE user.role

\* The role edit_user leaves on the account, lines 315-319
edit_user_role(user, current_user, role) ==
    IF role /= "" /\ role \in {"admin", "user", "tenant"}
    THEN IF user.role = "admin" /\ current_user = user.id /\ role /= "admin"
         THEN user.role
         ELSE role
    ELSE user.role

\* POST /edit_user/<user_id>
edit_user(current_user, user_id) ==
    IF users[current_user].role /= "admin"
    THEN /\ response' = UserResponse("edit_user", current_user, user_id, 302, "not admin")
         /\ UNCHANGED <<price_tier, total_electricity_month, bill, users, contracts, call>>
    ELSE
    IF user_id \notin DOMAIN users
    THEN /\ response' = UserResponse("edit_user", current_user, user_id, 404, "none")
         /\ UNCHANGED <<price_tier, total_electricity_month, bill, users, contracts, call>>
    ELSE \E form \in EditUserForms :
           LET user == users[user_id]
           IN  IF form.username /= "" /\ form.username /= user.username
                  /\ UsernameTaken(form.username)
               THEN /\ response' = UserResponse("edit_user", current_user, user_id, 200,
                                                "username taken")
                    /\ UNCHANGED <<price_tier, total_electricity_month, bill, users,
                                   contracts, call>>
               ELSE /\ users' = [users EXCEPT ![user_id] =
                           [@ EXCEPT
                              !.username = IF form.username /= "" THEN form.username
                                           ELSE user.username,
                              !.role = edit_user_role(user, current_user, form.role)]]
                    /\ response' = UserResponse("edit_user", current_user, user_id, 302,
                           IF edit_user_role(user, current_user, form.role) = form.role
                              \/ form.role \notin {"admin", "user", "tenant"}
                           THEN "none" ELSE "own role kept")
                    /\ UNCHANGED <<price_tier, total_electricity_month, bill, contracts,
                                   call>>

\* POST /delete_user/<user_id>
delete_user(current_user, user_id) ==
    IF users[current_user].role /= "admin"
    THEN /\ response' = UserResponse("delete_user", current_user, user_id, 302, "not admin")
         /\ UNCHANGED <<price_tier, total_electricity_month, bill, users, contracts, call>>
    ELSE
    IF user_id \notin DOMAIN users
    THEN /\ response' = UserResponse("delete_user", current_user, user_id, 404, "none")
         /\ UNCHANGED <<price_tier, total_electricity_month, bill, users, contracts, call>>
    ELSE
    IF user_id = current_user
    THEN /\ response' = UserResponse("delete_user", current_user, user_id, 302, "own account")
         /\ UNCHANGED <<price_tier, total_electricity_month, bill, users, contracts, call>>
    ELSE
    IF users[user_id].role = "admin" /\ AdminCount = 1
    THEN /\ response' = UserResponse("delete_user", current_user, user_id, 302, "last admin")
         /\ UNCHANGED <<price_tier, total_electricity_month, bill, users, contracts, call>>
    ELSE /\ users' = [u \in DOMAIN users \ {user_id} |-> users[u]]
         /\ response' = UserResponse("delete_user", current_user, user_id, 302, "none")
         /\ UNCHANGED <<price_tier, total_electricity_month, bill, contracts, call>>

Register == \E current_user \in DOMAIN users : register(current_user)

EditUser ==
    \E current_user \in DOMAIN users, user_id \in UserIds :
        edit_user(current_user, user_id)

DeleteUser ==
    \E current_user \in DOMAIN users, user_id \in UserIds :
        delete_user(current_user, user_id)

NextUsers == Register \/ EditUser \/ DeleteUser

SpecUsers == Init /\ [][NextUsers]_vars

-----------------------------------------------------------------------------
(* Specification of the reference data: the two administrative requests *)

ManageElectricityPrices ==
    \E current_user \in DOMAIN users : manage_electricity_prices(current_user)

\* A building record entered while the tier table is being administered
ManageTotalElectricityPriced ==
    /\ Len(total_electricity_month) < MaxPricedMonths
    /\ ManageTotalElectricity

NextPrices == ManageTotalElectricityPriced \/ ManageElectricityPrices

SpecPrices == Init /\ [][NextPrices]_vars

-----------------------------------------------------------------------------
(* Claims about the evaluator, checked under SpecTier *)

\* A sorted table that partitions [0, inf): it starts at 0, every tier but the
\* last is bounded and non-empty, each tier starts where the previous one ends,
\* and the last tier is unbounded.
ValidPartition(tiers) ==
    /\ Len(tiers) >= 1
    /\ tiers[1].from_kwh = 0
    /\ tiers[Len(tiers)].to_kwh = None
    /\ \A i \in 1..(Len(tiers) - 1) :
           /\ tiers[i].to_kwh /= None
           /\ tiers[i].to_kwh[1] > tiers[i].from_kwh
           /\ tiers[i + 1].from_kwh = tiers[i].to_kwh[1]

\* price * max(0, min(usage, upper_bound) - lower_bound) of one tier
ReferenceTierCost(usage, tier) ==
    LET reach == IF tier.to_kwh = None THEN usage ELSE Min(usage, tier.to_kwh[1])
    IN  tier.price * Max(0, reach - tier.from_kwh)

RECURSIVE ReferenceCost(_, _)
ReferenceCost(usage, tiers) ==
    IF tiers = << >> THEN 0
    ELSE ReferenceTierCost(usage, Head(tiers)) + ReferenceCost(usage, Tail(tiers))

\* C2: on a valid partition the evaluator returns the sum over the tiers of
\* price * max(0, min(total_usage, upper_bound) - lower_bound).
C2_MatchesReference ==
    (call.called /\ ValidPartition(call.tiers))
        => call.cost = ReferenceCost(call.total_kwh, call.tiers)

\* a call on a valid table of two tiers or more whose usage spills into the
\* second tier, both tiers priced
C2_Witness ==
    /\ call.called
    /\ ValidPartition(call.tiers)
    /\ Len(call.tiers) >= 2
    /\ call.total_kwh > call.tiers[2].from_kwh
    /\ call.tiers[1].price > 0
    /\ call.tiers[2].price > 0
    /\ call.cost > call.tiers[1].price * call.tiers[2].from_kwh

\* C7: on a valid partition the cost is monotonically non-decreasing in the
\* usage: no smaller usage costs more than the usage of the call.
C7_Monotone ==
    (call.called /\ ValidPartition(call.tiers))
        => \A u1 \in 0..call.total_kwh :
              calculate_total_electricity_cost_before_vat(u1, call.tiers).cost
                  <= call.cost

\* a call on a valid two-tier table for which a smaller usage costs strictly less
C7_Witness ==
    /\ call.called
    /\ ValidPartition(call.tiers)
    /\ Len(call.tiers) >= 2
    /\ call.total_kwh > call.tiers[2].from_kwh
    /\ \E u1 \in 1..call.total_kwh :
           calculate_total_electricity_cost_before_vat(u1, call.tiers).cost
               < call.cost

\* C8: a usage of 0 costs 0 whatever the tier table holds, and the call
\* returns before it queries the table.
C8_ZeroUsage ==
    (call.called /\ call.total_kwh = 0)
        => (call.cost = 0 /\ ~call.queried)

\* a call with usage 0 while the table holds rows that are no valid partition
C8_Witness ==
    /\ call.called
    /\ call.total_kwh = 0
    /\ price_tier /= {}
    /\ ~ValidPartition(call.tiers)

\* C10: the cost is never negative, also on tables that are no partition.
C10_NonNegative ==
    call.called => call.cost >= 0

\* a call that visited a tier whose non-zero upper bound lies below its lower
\* bound, on a table that is no partition
C10_Witness ==
    /\ call.called
    /\ call.queried
    /\ ~ValidPartition(call.tiers)
    /\ Len(call.tiers) >= 1
    /\ Truthy(call.tiers[1].to_kwh)
    /\ call.tiers[1].to_kwh[1] < call.tiers[1].from_kwh
    /\ call.tiers[1].price > 0

\* What a tier covers: upper bound minus lower bound, nothing when the upper
\* bound is not above the lower one.
TierCapacity(tier) == Max(0, tier.to_kwh[1] - tier.from_kwh)

RECURSIVE TotalCapacity(_)
TotalCapacity(tiers) ==
    IF tiers = << >> THEN 0
    ELSE TierCapacity(Head(tiers)) + TotalCapacity(Tail(tiers))

NoUnboundedTier(tiers) == \A i \in 1..Len(tiers) : tiers[i].to_kwh /= None

\* C9: when no tier is unbounded (no to_kwh is None) and the usage exceeds the
\* sum of the tier capacities, the result is the cost of the total capacity:
\* the excess is not priced.
C9_ExcessDropped ==
    (/\ call.called
     /\ NoUnboundedTier(call.tiers)
     /\ call.total_kwh > TotalCapacity(call.tiers))
        => call.cost = calculate_total_electricity_cost_before_vat(
                           TotalCapacity(call.tiers), call.tiers).cost

-----------------------------------------------------------------------------
(* Claims about the bill computation, checked under Spec *)

\* The last request was a create_bill or edit_bill that ran the bill computation
BillComputed ==
    response.handler \in {"create_bill", "edit_bill"} /\ response.computed

BilledContract ==
    IF response.handler = "create_bill" THEN contracts[response.target]
    ELSE contracts[bill[CHOOSE i \in BillIndex(response.target) : TRUE].contract_id]

BilledRoom == Room[Tenant[BilledContract.tenant_id].room_id]

\* The building's usage of the billing month: 0 without a monthly record
BuildingTotalUsage ==
    LET entry == month_entry_first(total_electricity_month, response.form.month)
    IN  IF entry = None THEN 0 ELSE entry[1].total_kwh

\* tiered_cost(building_total_usage) / building_total_usage, 0 for no usage
AverageUnitPrice ==
    IF BuildingTotalUsage > 0
    THEN Fraction(ReferenceCost(BuildingTotalUsage,
                                CHOOSE t \in order_by_tier_order(price_tier) : TRUE),
                  BuildingTotalUsage)
    ELSE Whole(0)

TenantElectricityUsage ==
    Max(response.form.electricity_new - response.form.electricity_old, 0)

TenantWaterUsage == Max(response.form.water_new - response.form.water_old, 0)

TenantElectricityPretax == FracMul(Whole(TenantElectricityUsage), AverageUnitPrice)

\* the fixed water tariff: 16000 for each of the first 5 units, 27000 beyond
WaterCost == 16000 * Min(TenantWaterUsage, 5) + 27000 * Max(TenantWaterUsage - 5, 0)

\* rent + internet + pretax * (1 + VAT_RATE) + water_cost
ClaimedTotal ==
    FracAdd(Whole(BilledRoom.rent_price + BilledRoom.internet_fee + WaterCost),
            FracMul(TenantElectricityPretax, FracAdd(Whole(1), VAT_RATE)))

\* The computation came back with a breakdown the handler can read by key
GaveBreakdown ==
    /\ response.bill_data.exc = "none"
    /\ response.bill_data.kind = "dict"
    /\ response.exc = "none"

\* C1: the bill computation yields total = rent_price + internet_fee +
\* tenant_electricity_pretax * (1 + VAT_RATE) + water_cost, VAT on the
\* electricity component only.
C1_TotalFormula ==
    BillComputed => (GaveBreakdown /\ response.bill_data.value.total = ClaimedTotal)

\* C3: the bill computation never ends in an error: for every input it returns
\* a breakdown, with a zero cost component for zero usage, a missing monthly
\* record or an empty tier table.
C3_NoError ==
    BillComputed =>
        /\ response.status /= 500
        /\ GaveBreakdown
        /\ (TenantElectricityUsage = 0 \/ BuildingTotalUsage = 0 \/ price_tier = {})
               => response.bill_data.value.room_electricity_with_vat = Whole(0)
        /\ TenantWaterUsage = 0 => response.bill_data.value.water_cost = 0

\* C4: without a monthly record for the billing month the pre-tax electricity
\* cost and the VAT are 0 and the total is rent + internet + water_cost.
C4_NoMonthlyRecord ==
    (/\ BillComputed
     /\ month_entry_first(total_electricity_month, response.form.month) = None)
        => /\ GaveBreakdown
           /\ response.bill_data.value.room_electricity_before_vat = Whole(0)
           /\ response.bill_data.value.electricity_vat = Whole(0)
           /\ response.bill_data.value.total =
                  Whole(BilledRoom.rent_price + BilledRoom.internet_fee + WaterCost)

\* C5: the usages computed and stored on the Bill are max(new - old, 0), never
\* negative; with electricity_new < electricity_old the electricity usage and
\* the electricity contribution to the total are 0.
C5_UsageClamped ==
    BillComputed =>
        /\ GaveBreakdown
        /\ response.bill_data.value.electricity_usage = TenantElectricityUsage
        /\ response.bill_data.value.water_usage = TenantWaterUsage
        /\ \E i \in 1..Len(bill) :
              /\ bill[i].electricity_old = response.form.electricity_old
              /\ bill[i].electricity_new = response.form.electricity_new
              /\ bill[i].electricity_usage = TenantElectricityUsage
              /\ bill[i].water_usage = TenantWaterUsage
              /\ bill[i].electricity_usage >= 0
              /\ bill[i].water_usage >= 0
        /\ response.form.electricity_new < response.form.electricity_old
               => /\ response.bill_data.value.electricity_usage = 0
                  /\ response.bill_data.value.room_electricity_with_vat = Whole(0)

\* The monthly rows of building usage 120 entered under the seeded table
Rows120 ==
    { i \in 1..Len(total_electricity_month) :
        total_electricity_month[i].total_kwh = 120 }

-----------------------------------------------------------------------------
(* Claims about the water tariff, checked under SpecWater *)

\* The literal two-tier water table: 16000 up to 5 units, 27000 beyond
WaterTiers ==
    << PriceTierRow(1, 1, 0, Some(5), 16000), PriceTierRow(2, 2, 5, None, 27000) >>

WaterCalled == call.called /\ call.function = "calculate_water_cost"

\* C11: for every water usage >= 0, calculate_water_cost(usage) equals the
\* tiered evaluation of usage over the table [(0, 5, 16000), (5, unbounded,
\* 27000)], under either def of the function; calculate_water_cost(0) = 0,
\* calculate_water_cost(5) = 80000 and calculate_water_cost(7) = 134000.
C11_WaterIsTiered ==
    WaterCalled =>
        /\ call.cost =
              calculate_total_electricity_cost_before_vat(call.total_kwh, WaterTiers).cost
        /\ call.cost = ReferenceCost(call.total_kwh, WaterTiers)
        /\ calculate_water_cost_91(call.total_kwh) = call.cost
        /\ call.total_kwh = 0 => call.cost = 0
        /\ call.total_kwh = 5 => call.cost = 80000
        /\ call.total_kwh = 7 => call.cost = 134000

\* calculate_water_cost was called with a usage in the second tier
C11_Witness == WaterCalled /\ call.total_kwh = 7 /\ call.cost = 134000


-----------------------------------------------------------------------------
(* Claims about what the requests change, checked under Spec *)

\* C12: a create_bill or edit_bill request, and the bill computation it runs,
\* leaves every PriceTier row and every TotalElectricityMonth record as it was.
C12_ReferenceDataUntouched ==
    [][response'.handler \in {"create_bill", "edit_bill"}
          => /\ price_tier' = price_tier
             /\ total_electricity_month' = total_electricity_month]_vars

\* create_bill ran the bill computation for a month that has a building record
C12_Witness ==
    /\ BillComputed
    /\ response.handler = "create_bill"
    /\ month_entry_first(total_electricity_month, response.form.month) /= None
    /\ price_tier = SeededTiers


\* C14: month is a unique key of TotalElectricityMonth: after any sequence of
\* manage_total_electricity submissions no two records have the same month.
C14_OneRecordPerMonth ==
    \A i, j \in 1..Len(total_electricity_month) :
        total_electricity_month[i].month = total_electricity_month[j].month => i = j

\* The building records of the billing month, by position
BillingMonthRows ==
    { i \in 1..Len(total_electricity_month) :
        total_electricity_month[i].month = response.form.month }

\* The most recently committed of them
LatestBillingMonthRow ==
    total_electricity_month[CHOOSE i \in BillingMonthRows :
                                \A j \in BillingMonthRows : j <= i]

\* C16: a bill computation for a month that has building records uses the
\* freshest committed reference data: the total usage of the most recently
\* committed record of the month and the tier table as it is at the call.
C16_FreshestData ==
    (BillComputed /\ BillingMonthRows /= {}) =>
        /\ month_entry_first(total_electricity_month, response.form.month)
               = Some(LatestBillingMonthRow)
        /\ GaveBreakdown
        /\ \A tiers \in order_by_tier_order(price_tier) :
              response.bill_data.value.average_price =
                  IF LatestBillingMonthRow.total_kwh > 0
                  THEN Fraction(calculate_total_electricity_cost_before_vat(
                                    LatestBillingMonthRow.total_kwh, tiers).cost,
                                LatestBillingMonthRow.total_kwh)
                  ELSE Whole(0)

-----------------------------------------------------------------------------
(* Claims about bills and contracts, checked under SpecContracts *)

\* The request handled by this step ran the bill computation
BillingStep ==
    response'.handler \in {"create_bill", "edit_bill"} /\ response'.computed

\* The step left a Bill holding the result of its computation: the total and
\* the two usages of the breakdown, on the edited bill for edit_bill
ResultStored ==
    /\ response'.bill_data.exc = "none"
    /\ response'.bill_data.kind = "dict"
    /\ \E i \in 1..Len(bill') :
          /\ response'.handler = "edit_bill" => bill'[i].id = response'.target
          /\ response'.handler = "create_bill" => bill'[i].contract_id = response'.target
          /\ bill'[i].month = response'.form.month
          /\ bill'[i].total = response'.bill_data.value.total
          /\ bill'[i].electricity_usage = response'.bill_data.value.electricity_usage
          /\ bill'[i].water_usage = response'.bill_data.value.water_usage

\* Every bill the step kept has the total it had
TotalsKept ==
    \A i \in 1..Len(bill') :
        \E j \in 1..Len(bill) : bill[j].id = bill'[i].id /\ bill[j].total = bill'[i].total

-----------------------------------------------------------------------------
(* Claims about the reference data, checked under SpecPrices *)

\* C15: every stored TotalElectricityMonth record has total_kwh =
\* max(electricity_new - electricity_old, 0) and average_price = the tiered
\* cost of total_kwh under the tier table divided by total_kwh, 0 for no usage.
C15_MonthRecordsDerived ==
    \A i \in 1..Len(total_electricity_month), tiers \in order_by_tier_order(price_tier) :
        LET row == total_electricity_month[i]
        IN  /\ row.total_kwh = Max(row.electricity_new - row.electricity_old, 0)
            /\ row.average_price =
                  IF row.total_kwh > 0
                  THEN Fraction(calculate_total_electricity_cost_before_vat(
                                    row.total_kwh, tiers).cost, row.total_kwh)
                  ELSE Whole(0)

\* C17: the tier table sorted by tier_order is a contiguous partition of
\* [0, inf) after any sequence of tier add, edit and delete operations.
C17_TablePartitions ==
    \A tiers \in order_by_tier_order(price_tier) : ValidPartition(tiers)


-----------------------------------------------------------------------------
(* Claims about the accounts, checked under SpecUsers *)

AdminExists == \E u \in DOMAIN users : users[u].role = "admin"

UserRequest == response'.handler \in {"register", "edit_user", "delete_user"}

\* C18: after any sequence of register, edit_user and delete_user requests by
\* logged-in users a user with role 'admin' still exists: a request of a
\* non-admin caller changes no account, and an admin caller's own account is
\* neither deleted nor demoted by the request.
C18_AdminRemains ==
    [][UserRequest =>
          /\ AdminExists'
          /\ users[response'.current_user].role /= "admin" => users' = users
          /\ users[response'.current_user].role = "admin"
                => /\ response'.current_user \in DOMAIN users'
                   /\ users'[response'.current_user].role = "admin"]_vars

\* the only admin has asked to demote their own account and is still admin
C18_Witness ==
    /\ response.handler = "edit_user"
    /\ response.exc = "own role kept"
    /\ response.target = response.current_user
    /\ AdminCount = 1
    /\ users[response.current_user].role = "admin"

====
